---- MODULE Spec2Model ----
(***************************************************************************)
(* Price-decorator chain and product-filter decorator chain of the         *)
(* product catalog application.                                            *)
(*                                                                         *)
(* Strings are sequences of one-character strings, so that toLowerCase,    *)
(* trim, includes and template concatenation are computed character by     *)
(* character.  Prices and totals are exact rationals [n, d] in lowest      *)
(* terms; a discount percent (a fraction in the source) is carried as a    *)
(* number of hundredths.                                                   *)
(***************************************************************************)
EXTENDS Integers, Sequences, FiniteSets, TLC

VARIABLES calc, prod, tot, L, variant, chain, params, out, desc,
          controller, priceCalculator, log, info,
          catalog, lastCall, result,
          allProducts, filterParams, response,
          users, userCall, userResult,
          table, dbCall, dbResult,
          activeDiscounts, appCall,
          appProducts, pending, issued

priceVars == <<calc, prod, tot>>
filterVars == <<L, variant, chain, params, out, desc>>
controllerVars == <<controller, priceCalculator, log, info>>
serviceVars == <<catalog, lastCall, result>>
pageVars == <<allProducts, filterParams, response>>
userVars == <<users, userCall, userResult>>
repositoryVars == <<table, dbCall, dbResult>>
discountVars == <<activeDiscounts, appCall>>
requestVars == <<appProducts, pending, issued>>
laterVars == <<pageVars, userVars, repositoryVars, discountVars, requestVars>>
vars == <<priceVars, filterVars, controllerVars, serviceVars, laterVars>>

\* what the operations of one family leave alone
notPrice == <<filterVars, controllerVars, serviceVars, laterVars>>
notFilter == <<priceVars, controllerVars, serviceVars, laterVars>>
notController == <<priceVars, filterVars, serviceVars, laterVars>>
notService == <<priceVars, filterVars, controllerVars, laterVars>>
earlierVars == <<priceVars, filterVars, controllerVars, serviceVars>>
notPage == <<earlierVars, userVars, repositoryVars, discountVars, requestVars>>
notUser == <<earlierVars, pageVars, repositoryVars, discountVars, requestVars>>
notRepository == <<earlierVars, pageVars, userVars, discountVars, requestVars>>
notDiscount == <<earlierVars, pageVars, userVars, repositoryVars, requestVars>>
notRequest == <<earlierVars, pageVars, userVars, repositoryVars, discountVars>>

(***************************************************************************)
(* Bounds of the model                                                     *)
(***************************************************************************)
MaxPriceChain == 3
MaxFilterChain == 2
MaxList == 2

(***************************************************************************)
(* JavaScript values                                                       *)
(***************************************************************************)
\* null / undefined where a string is expected: a one-token sequence that is
\* no character string
Null == <<"null">>
Undefined == <<"undefined">>
\* undefined where a number is expected is the empty option; Num(n) is a number
\* and Str(s) a string held by a field that should hold a number
NoNum == <<>>
Num(n) == <<n>>
Str(s) == <<"str", s>>
IsNum(x) == Len(x) = 1
IsStr(x) == Len(x) = 2
IsNullish(s) == s = Null \/ s = Undefined

Front(s) == SubSeq(s, 1, Len(s) - 1)
Last(s) == s[Len(s)]

UpperChars == <<"A","B","C","D","E","F","G","H","I","J","K","L","M",
                "N","O","P","Q","R","S","T","U","V","W","X","Y","Z">>
LowerChars == <<"a","b","c","d","e","f","g","h","i","j","k","l","m",
                "n","o","p","q","r","s","t","u","v","w","x","y","z">>

\* String.prototype.toLowerCase
toLowerCase(s) ==
    [i \in 1..Len(s) |->
        IF \E k \in 1..26 : UpperChars[k] = s[i]
        THEN LowerChars[CHOOSE k \in 1..26 : UpperChars[k] = s[i]]
        ELSE s[i]]

RECURSIVE trimStart(_)
trimStart(s) == IF s # <<>> /\ s[1] = " " THEN trimStart(Tail(s)) ELSE s

RECURSIVE trimEnd(_)
trimEnd(s) == IF s # <<>> /\ Last(s) = " " THEN trimEnd(Front(s)) ELSE s

\* String.prototype.trim
trim(s) == trimEnd(trimStart(s))

\* String.prototype.includes
includes(s, t) ==
    \E i \in 0..(Len(s) - Len(t)) : SubSeq(s, i + 1, i + Len(t)) = t

\* what a template literal ${x} makes of a string-or-null value
templ(s) == IF s = Null THEN <<"n","u","l","l">>
            ELSE IF s = Undefined THEN <<"u","n","d","e","f","i","n","e","d">>
            ELSE s

DigitChars == <<"0","1","2","3","4","5","6","7","8","9">>

RECURSIVE digits(_)
digits(n) == IF n < 10 THEN <<DigitChars[n + 1]>>
             ELSE digits(n \div 10) \o <<DigitChars[(n % 10) + 1]>>

isDigit(c) == \E k \in 1..10 : DigitChars[k] = c
digitValue(c) == (CHOOSE k \in 1..10 : DigitChars[k] = c) - 1

RECURSIVE parseDigits(_, _)
parseDigits(s, acc) ==
    IF s # <<>> /\ isDigit(s[1])
    THEN parseDigits(Tail(s), acc * 10 + digitValue(s[1]))
    ELSE acc

\* parseInt: a number is returned as it is (the numbers of the model are
\* integral); a string is read up to the end of its leading digits, after
\* white space and a sign; anything else is NaN, the empty option
parseInt(x) ==
    IF IsNum(x) THEN x
    ELSE IF IsStr(x)
    THEN LET t == trimStart(x[2])
             signed == t # <<>> /\ t[1] \in {"-", "+"}
             body == IF signed THEN Tail(t) ELSE t
         IN  IF body = <<>> \/ ~isDigit(body[1]) THEN NoNum
             ELSE IF signed /\ t[1] = "-" THEN Num(0 - parseDigits(body, 0))
             ELSE Num(parseDigits(body, 0))
    ELSE NoNum

\* Number.prototype.toFixed(2) of an integral number
toFixed2(n) == (IF n < 0 THEN <<"-">> \o digits(0 - n) ELSE digits(n))
               \o <<".","0","0">>

(***************************************************************************)
(* Exact arithmetic on totals                                              *)
(***************************************************************************)
Abs(x) == IF x < 0 THEN 0 - x ELSE x

RECURSIVE Gcd(_, _)
Gcd(a, b) == IF b = 0 THEN a ELSE Gcd(b, a % b)

Rat(n, d) == LET g == Gcd(Abs(n), d)
             IN  IF g = 0 THEN [n |-> 0, d |-> 1]
                 ELSE [n |-> n \div g, d |-> d \div g]

RatOfInt(k) == [n |-> k, d |-> 1]
\* x * (1 - pc/100)
RatOff(x, pc) == Rat(x.n * (100 - pc), x.d * 100)
RatPlusInt(x, k) == Rat(x.n + k * x.d, x.d)
RatLess(x, y) == x.n * y.d < y.n * x.d

(***************************************************************************)
(* Text used by the programs                                               *)
(***************************************************************************)
electronics == <<"e","l","e","c","t","r","o","n","i","c","s">>
books == <<"b","o","o","k","s">>
Books == <<"B","o","o","k","s">>
eletronicos == <<"e","l","e","t","r","o","n","i","c","o","s">>
livros == <<"l","i","v","r","o","s">>
alimentos == <<"a","l","i","m","e","n","t","o","s">>
tolkien == <<"t","o","l","k","i","e","n">>

\* a product row: description and stock_quantity may be missing
Product(name, category, price, description, stock) ==
    [name |-> name, category |-> category, price |-> price,
     description |-> description, stock_quantity |-> stock]

pA == Product(<<"A">>, electronics, 100, Undefined, Num(5))
pB == Product(<<"B">>, electronics, 50, Undefined, Num(0))
pC == Product(<<"C">>, books, 20, Undefined, NoNum)
pD == Product(<<"H","o","b","b","i","t">>, Books, 30,
              <<"b","y"," ","T","o","l","k","i","e","n">>, Str(<<"1","2">>))
pE == Product(<<"T","o","l","k","i","e","n">>, books, -5, <<>>,
              Str(<<"n","/","a">>))
pF == Product(<<"F">>, electronics, 200, Undefined, Num(1))
pG == Product(<<"G">>, livros, 40, Undefined, Num(1))
pH == Product(<<"H">>, alimentos, 8, Undefined, Num(1))
pI == Product(<<"I">>, eletronicos, 300, Undefined, Num(1))

(***************************************************************************)
(* PriceCalc chain.  A chain is the sequence of its decorators, innermost  *)
(* first; the empty sequence is a bare BasicPrice.                         *)
(***************************************************************************)
CategoryPercentOff(category, percent) ==
    [kind |-> "CategoryPercentOff", category |-> category, percent |-> percent]
CouponPercentOff(percent) ==
    [kind |-> "CouponPercentOff", category |-> Null, percent |-> percent]
ShippingDecorator ==
    [kind |-> "ShippingDecorator", category |-> Null, percent |-> 0]

BasicPrice_total(p) == RatOfInt(p.price)

\* slip: the category test is dropped, the rule applies to every product
CategoryPercentOff_total_anyCategory(d, basePrice, p) == RatOff(basePrice, d.percent)

CategoryPercentOff_total(d, basePrice, p) ==
    IF p.category = d.category THEN RatOff(basePrice, d.percent) ELSE basePrice

\* slip: the coupon is taken off the original price (additive discounts)
CouponPercentOff_total_additive(d, basePrice, p) ==
    Rat(basePrice.n * 100 - p.price * d.percent * basePrice.d, basePrice.d * 100)

CouponPercentOff_total(d, basePrice, p) == RatOff(basePrice, d.percent)

shippingCost(p) ==
    IF p.category = eletronicos THEN 25
    ELSE IF p.category = livros THEN 10
    ELSE IF p.category = alimentos THEN 15
    ELSE 0

\* slip: the shipping cost taken as a percentage of the price
ShippingDecorator_total_percent(d, basePrice, p) == RatOff(basePrice, 0 - shippingCost(p))

ShippingDecorator_total(d, basePrice, p) == RatPlusInt(basePrice, shippingCost(p))

RECURSIVE total(_, _)
total(c, p) ==
    IF c = <<>> THEN BasicPrice_total(p)
    ELSE LET d == Last(c)
             basePrice == total(Front(c), p)
         IN  CASE d.kind = "CategoryPercentOff" -> CategoryPercentOff_total(d, basePrice, p)
               [] d.kind = "CouponPercentOff" -> CouponPercentOff_total(d, basePrice, p)
               [] d.kind = "ShippingDecorator" -> ShippingDecorator_total(d, basePrice, p)

PriceCategories == {electronics, books}
\* percent in hundredths; 150 is a percent no discount can have
Percents == {0, 5, 10, 100, 150}
PriceProducts == {pA, pC, pE, pF, pG, pH, pI}

NoTotal == [called |-> FALSE, value |-> RatOfInt(0)]

\* no price information asked of a controller yet
NoInfo ==
    [called |-> FALSE, product |-> pF, originalPrice |-> 0,
     finalPrice |-> RatOfInt(0), discount |-> RatOfInt(0),
     discountPercentage |-> RatOfInt(0)]

\* the families a specification does not exercise rest in these states
InitPageIdle ==
    /\ allProducts = <<>>
    /\ filterParams = <<>>
    /\ response = <<>>

InitUserIdle ==
    /\ users = <<>>
    /\ userCall = <<>>
    /\ userResult = "none"

InitRepositoryIdle ==
    /\ table = <<>>
    /\ dbCall = <<>>
    /\ dbResult = <<>>

InitDiscountIdle ==
    /\ activeDiscounts = <<>>
    /\ appCall = <<>>

InitRequestIdle ==
    /\ appProducts = <<>>
    /\ pending = {}
    /\ issued = <<>>

InitLaterIdle ==
    /\ InitPageIdle
    /\ InitUserIdle
    /\ InitRepositoryIdle
    /\ InitDiscountIdle
    /\ InitRequestIdle

InitControllerIdle ==
    /\ controller = "ProductController"
    /\ priceCalculator = <<>>
    /\ log = <<>>
    /\ info = NoInfo

\* no call made on a ProductService yet
NoCall == [op |-> "none", name |-> <<>>, before |-> <<>>]

InitServiceIdle ==
    /\ catalog = <<>>
    /\ lastCall = NoCall
    /\ result = "none"

InitPrice ==
    /\ calc = <<>>
    /\ prod \in PriceProducts
    /\ tot = NoTotal

NewBasicPrice ==
    /\ calc' = <<>>
    /\ tot' = NoTotal
    /\ UNCHANGED <<prod, notPrice>>

NewCategoryPercentOff(K, pc) ==
    /\ Len(calc) < MaxPriceChain
    /\ calc' = Append(calc, CategoryPercentOff(K, pc))
    /\ tot' = NoTotal
    /\ UNCHANGED <<prod, notPrice>>

NewCouponPercentOff(pc) ==
    /\ Len(calc) < MaxPriceChain
    /\ calc' = Append(calc, CouponPercentOff(pc))
    /\ tot' = NoTotal
    /\ UNCHANGED <<prod, notPrice>>

NewShippingDecorator ==
    /\ Len(calc) < MaxPriceChain
    /\ calc' = Append(calc, ShippingDecorator)
    /\ tot' = NoTotal
    /\ UNCHANGED <<prod, notPrice>>

CallTotal ==
    /\ tot' = [called |-> TRUE, value |-> total(calc, prod)]
    /\ UNCHANGED <<calc, prod, notPrice>>

InitFilterIdle ==
    /\ L = <<>>
    /\ variant = "sync"
    /\ chain = <<>>
    /\ params = <<>>
    /\ out = [called |-> FALSE, err |-> FALSE, val |-> <<>>]
    /\ desc = [called |-> FALSE, text |-> <<>>]

NextPrice ==
    \/ NewBasicPrice
    \/ \E K \in PriceCategories, pc \in Percents : NewCategoryPercentOff(K, pc)
    \/ \E pc \in Percents : NewCouponPercentOff(pc)
    \/ NewShippingDecorator
    \/ CallTotal

PriceInit == InitPrice /\ InitFilterIdle /\ InitControllerIdle /\ InitServiceIdle /\ InitLaterIdle

SpecPrice == PriceInit /\ [][NextPrice]_vars

(***************************************************************************)
(* ProductFilter chain.  Two implementations exist: the synchronous one    *)
(* (services/ProductFilters.ts, public/app.js), variant "sync", and the    *)
(* asynchronous backend one, variant "async".  A chain is the sequence of  *)
(* its decorators, innermost first; the empty sequence is a bare           *)
(* BaseFilter.                                                             *)
(***************************************************************************)
SentinelText == <<"F","i","l","t","r","o"," ","b","a","s","e"," ","(","s",
    "e","m"," ","f","i","l","t","r","a","g","e","m",")">>
JoinText == <<" ","+"," ">>
CategoriaText == <<"C","a","t","e","g","o","r","i","a",":"," ">>
CategoriaTodasText == <<"C","a","t","e","g","o","r","i","a",":"," ","T","o",
    "d","a","s">>
BuscaOpenText == <<"B","u","s","c","a",":"," ","\"">>
QuoteText == <<"\"">>
BuscaVaziaText == <<"B","u","s","c","a",":"," ","V","a","z","i","a">>
PrecoText == <<"P","r","e","ç","o",":"," ">>
PrecoTodosText == <<"P","r","e","ç","o",":"," ","T","o","d","o","s">>
ReaisText == <<"R","$"," ">>
DashReaisText == <<" ","-"," ","R","$"," ">>
GeReaisText == <<">","="," ","R","$"," ">>
LeReaisText == <<"<","="," ","R","$"," ">>
ApenasComDescontoText == <<"A","p","e","n","a","s"," ","c","o","m"," ","d",
    "e","s","c","o","n","t","o">>
TodosOsProdutosText == <<"T","o","d","o","s"," ","o","s"," ","p","r","o",
    "d","u","t","o","s">>
ApenasEmEstoqueText == <<"A","p","e","n","a","s"," ","e","m"," ","e","s",
    "t","o","q","u","e">>
IncluirSemEstoqueText == <<"I","n","c","l","u","i","r"," ","s","e","m"," ",
    "e","s","t","o","q","u","e">>

\* stands for Number.MAX_VALUE: a number above every price of the model
MAX_VALUE == 1000000

\* the outcome of a call: a list, or a thrown TypeError
Ok(list) == [err |-> FALSE, val |-> list]
Thrown == [err |-> TRUE, val |-> <<>>]

\* a pricing function handed to DiscountFilter: absent, or total() of a chain
NoFn == <<>>
Fn(c) == <<c>>

Decorator(kind, category, searchTerm, minPrice, maxPrice, flag, fn) ==
    [kind |-> kind, category |-> category, searchTerm |-> searchTerm,
     minPrice |-> minPrice, maxPrice |-> maxPrice, flag |-> flag, fn |-> fn]

\* constructors: the sync ones apply default parameters and lower-case the
\* search term, the async ones store their arguments as given
CategoryFilter(v, category) ==
    Decorator("CategoryFilter",
              IF v = "sync" /\ category = Undefined THEN Null ELSE category,
              Undefined, NoNum, NoNum, FALSE, NoFn)

SearchFilter(v, searchTerm) ==
    Decorator("SearchFilter", Null,
              IF v = "sync"
              THEN toLowerCase(IF searchTerm = Undefined THEN <<>> ELSE searchTerm)
              ELSE searchTerm,
              NoNum, NoNum, FALSE, NoFn)

PriceRangeFilter(v, minPrice, maxPrice) ==
    Decorator("PriceRangeFilter", Null, Undefined,
              IF v = "sync" /\ ~IsNum(minPrice) THEN Num(0) ELSE minPrice,
              IF v = "sync" /\ ~IsNum(maxPrice) THEN Num(MAX_VALUE) ELSE maxPrice,
              FALSE, NoFn)

DiscountFilter(onlyWithDiscount, priceCalculatorFn) ==
    Decorator("DiscountFilter", Null, Undefined, NoNum, NoNum,
              onlyWithDiscount, priceCalculatorFn)

StockFilter(inStockOnly) ==
    Decorator("StockFilter", Null, Undefined, NoNum, NoNum, inStockOnly, NoFn)

\* JavaScript truthiness of a string-or-null value
truthy(s) == ~IsNullish(s) /\ s # <<>>

\* slip: the copy loses the last product
BaseFilter_filter_short(products) == SubSeq(products, 1, Len(products) - 1)

BaseFilter_filter(products) == [i \in 1..Len(products) |-> products[i]]

\* parseInt(x) || 0
parseIntOr0(x) == LET n == parseInt(x) IN IF IsNum(n) THEN n[1] ELSE 0

CategoryFilter_applyFilter(v, d, products) ==
    IF v = "sync"
    THEN IF ~truthy(d.category) THEN Ok(products)
         ELSE Ok(SelectSeq(products, LAMBDA p : p.category = d.category))
    ELSE IF \E i \in 1..Len(products) :
                IsNullish(products[i].category) \/ IsNullish(d.category)
         THEN Thrown
         ELSE Ok(SelectSeq(products,
                 LAMBDA p : toLowerCase(p.category) = toLowerCase(d.category)))

SearchFilter_applyFilter(v, d, products) ==
    IF v = "sync"
    THEN IF trim(d.searchTerm) = <<>> THEN Ok(products)
         ELSE IF \E i \in 1..Len(products) : IsNullish(products[i].name)
         THEN Thrown
         ELSE Ok(SelectSeq(products, LAMBDA p :
                 \/ includes(toLowerCase(p.name), d.searchTerm)
                 \/ /\ ~IsNullish(p.description)
                    /\ includes(toLowerCase(p.description), d.searchTerm)))
    ELSE IF \/ IsNullish(d.searchTerm)
            \/ \E i \in 1..Len(products) : IsNullish(products[i].name)
         THEN Thrown
         ELSE Ok(SelectSeq(products, LAMBDA p :
                 \/ includes(toLowerCase(p.name), toLowerCase(d.searchTerm))
                 \/ /\ truthy(p.description)
                    /\ includes(toLowerCase(p.description),
                                toLowerCase(d.searchTerm))))

PriceRangeFilter_applyFilter(v, d, products) ==
    IF v = "sync"
    THEN Ok(SelectSeq(products, LAMBDA p :
            p.price >= d.minPrice[1] /\ p.price <= d.maxPrice[1]))
    \* the rows carry numeric prices, which parseFloat returns as they are
    ELSE Ok(SelectSeq(products, LAMBDA p :
            /\ ~(IsNum(d.minPrice) /\ p.price < d.minPrice[1])
            /\ ~(IsNum(d.maxPrice) /\ p.price > d.maxPrice[1])))

\* slip: a product whose final price equals its price counts as discounted
DiscountFilter_applyFilter_orEqual(d, products) ==
    IF ~d.flag \/ d.fn = NoFn THEN Ok(products)
    ELSE Ok(SelectSeq(products, LAMBDA p :
            ~RatLess(RatOfInt(p.price), total(d.fn[1], p))))

DiscountFilter_applyFilter(d, products) ==
    IF ~d.flag \/ d.fn = NoFn THEN Ok(products)
    ELSE Ok(SelectSeq(products, LAMBDA p :
            RatLess(total(d.fn[1], p), RatOfInt(p.price))))

\* slip: a stock of 0 counts as in stock
StockFilter_applyFilter_orZero(d, products) ==
    IF ~d.flag THEN Ok(products)
    ELSE Ok(SelectSeq(products, LAMBDA p : parseIntOr0(p.stock_quantity) >= 0))

StockFilter_applyFilter(d, products) ==
    IF ~d.flag THEN Ok(products)
    ELSE Ok(SelectSeq(products, LAMBDA p : parseIntOr0(p.stock_quantity) > 0))

applyFilter(v, d, products) ==
    CASE d.kind = "CategoryFilter" -> CategoryFilter_applyFilter(v, d, products)
      [] d.kind = "SearchFilter" -> SearchFilter_applyFilter(v, d, products)
      [] d.kind = "PriceRangeFilter" -> PriceRangeFilter_applyFilter(v, d, products)
      [] d.kind = "DiscountFilter" -> DiscountFilter_applyFilter(d, products)
      [] d.kind = "StockFilter" -> StockFilter_applyFilter(d, products)

\* slip: the decorator filters the caller's list, not the wrapped filter's
\* result
filter_ignoringWrapped(v, c, products) ==
    IF c = <<>> THEN Ok(BaseFilter_filter(products))
    ELSE applyFilter(v, Last(c), products)

\* FilterDecorator.filter: the wrapped filter first, then the decorator's own
RECURSIVE filter(_, _, _)
filter(v, c, products) ==
    IF c = <<>> THEN Ok(BaseFilter_filter(products))
    ELSE LET filteredByWrapped == filter(v, Front(c), products)
         IN  IF filteredByWrapped.err THEN Thrown
             ELSE applyFilter(v, Last(c), filteredByWrapped.val)

BaseFilter_getDescription == SentinelText

CategoryFilter_getOwnDescription(v, d) ==
    IF v = "sync"
    THEN IF truthy(d.category) THEN CategoriaText \o templ(d.category)
         ELSE CategoriaTodasText
    ELSE CategoriaText \o templ(d.category)

SearchFilter_getOwnDescription(v, d) ==
    IF v = "sync"
    THEN IF d.searchTerm # <<>> THEN BuscaOpenText \o d.searchTerm \o QuoteText
         ELSE BuscaVaziaText
    ELSE BuscaOpenText \o templ(d.searchTerm) \o QuoteText

PriceRangeFilter_getOwnDescription(v, d) ==
    IF v = "sync"
    THEN IF d.minPrice[1] = 0 /\ d.maxPrice[1] = MAX_VALUE THEN PrecoTodosText
         ELSE PrecoText \o ReaisText \o toFixed2(d.minPrice[1])
                        \o DashReaisText \o toFixed2(d.maxPrice[1])
    ELSE IF IsNum(d.minPrice) /\ IsNum(d.maxPrice)
         THEN PrecoText \o ReaisText \o toFixed2(d.minPrice[1])
                        \o DashReaisText \o toFixed2(d.maxPrice[1])
         ELSE IF IsNum(d.minPrice)
         THEN PrecoText \o GeReaisText \o toFixed2(d.minPrice[1])
         ELSE IF IsNum(d.maxPrice)
         THEN PrecoText \o LeReaisText \o toFixed2(d.maxPrice[1])
         ELSE PrecoText

DiscountFilter_getOwnDescription(d) ==
    IF d.flag THEN ApenasComDescontoText ELSE TodosOsProdutosText

StockFilter_getOwnDescription(d) ==
    IF d.flag THEN ApenasEmEstoqueText ELSE IncluirSemEstoqueText

getOwnDescription(v, d) ==
    CASE d.kind = "CategoryFilter" -> CategoryFilter_getOwnDescription(v, d)
      [] d.kind = "SearchFilter" -> SearchFilter_getOwnDescription(v, d)
      [] d.kind = "PriceRangeFilter" -> PriceRangeFilter_getOwnDescription(v, d)
      [] d.kind = "DiscountFilter" -> DiscountFilter_getOwnDescription(d)
      [] d.kind = "StockFilter" -> StockFilter_getOwnDescription(d)

\* sync: FilterDecorator.getDescription joins unconditionally; async: every
\* decorator compares the inner description with the BaseFilter text
RECURSIVE getDescription(_, _)
getDescription(v, c) ==
    IF c = <<>> THEN BaseFilter_getDescription
    ELSE LET baseDesc == getDescription(v, Front(c))
             own == getOwnDescription(v, Last(c))
         IN  IF v = "sync" THEN baseDesc \o JoinText \o own
             ELSE IF baseDesc = SentinelText THEN own
             ELSE baseDesc \o JoinText \o own

\* slip: the search stage is built before the category stage
createCompleteFilter_searchFirst(v, category, searchTerm, minPrice, maxPrice, flag, fn) ==
    LET f1 == IF ~IsNullish(searchTerm) /\ trim(searchTerm) # <<>>
              THEN <<SearchFilter(v, searchTerm)>> ELSE <<>>
        f2 == IF truthy(category) THEN Append(f1, CategoryFilter(v, category))
              ELSE f1
        f3 == IF IsNum(minPrice) /\ IsNum(maxPrice)
              THEN Append(f2, PriceRangeFilter(v, minPrice, maxPrice)) ELSE f2
    IN  f3

\* FilterFactory.createCompleteFilter; flag is onlyWithDiscount in the sync
\* factory and inStockOnly in the async one, which takes no pricing function
createCompleteFilter(v, category, searchTerm, minPrice, maxPrice, flag, fn) ==
    LET f1 == IF truthy(category) THEN <<CategoryFilter(v, category)>> ELSE <<>>
        f2 == IF ~IsNullish(searchTerm) /\ trim(searchTerm) # <<>>
              THEN Append(f1, SearchFilter(v, searchTerm)) ELSE f1
        f3 == IF v = "sync"
              THEN IF IsNum(minPrice) /\ IsNum(maxPrice)
                   THEN Append(f2, PriceRangeFilter(v, minPrice, maxPrice)) ELSE f2
              ELSE IF IsNum(minPrice) \/ IsNum(maxPrice)
                   THEN Append(f2, PriceRangeFilter(v, minPrice, maxPrice)) ELSE f2
        f4 == IF v = "sync"
              THEN IF flag /\ fn # NoFn
                   THEN Append(f3, DiscountFilter(flag, fn)) ELSE f3
              ELSE IF flag THEN Append(f3, StockFilter(TRUE)) ELSE f3
    IN  f4

(***************************************************************************)
(* The filter workbench: a product list, a chain under construction, and   *)
(* the result of the last call made on it, filter() or getDescription().   *)
(***************************************************************************)
Variants == {"sync", "async"}
FilterProducts == {pB, pC, pD, pE}
FilterCategories == {books, Null}
SearchTerms == {tolkien, <<" ">>}
FactoryCategories == {electronics, books, <<>>, Undefined}
FactorySearchTerms == {tolkien, <<>>, Undefined}
MinPrices == {NoNum, Num(60)}
MaxPrices == {NoNum, Num(100)}
discountCalc == <<CategoryPercentOff(electronics, 10)>>
PriceFns == {NoFn, Fn(discountCalc)}

ScenarioList == <<pA, pB, pC>>
\* catalogs: product names are unique, so a list holds a product at most
\* once; the lists are taken in the one order the catalog is read in
CatalogOrder == <<pB, pC, pD, pE>>
placeOf(p) == CHOOSE k \in 1..Len(CatalogOrder) : CatalogOrder[k] = p
Lists ==
    {s \in UNION {[1..n -> FilterProducts] : n \in 0..MaxList} :
        \A i, j \in 1..Len(s) : i < j => placeOf(s[i]) < placeOf(s[j])}
        \cup {ScenarioList}

NotBuilt == <<>>
Built(category, searchTerm, minPrice, maxPrice, flag, fn) ==
    <<[category |-> category, searchTerm |-> searchTerm, minPrice |-> minPrice,
       maxPrice |-> maxPrice, flag |-> flag, fn |-> fn]>>

NoOut == [called |-> FALSE, err |-> FALSE, val |-> <<>>]
NoDesc == [called |-> FALSE, text |-> <<>>]

InitFilter ==
    /\ L \in Lists
    /\ variant \in Variants
    /\ chain = <<>>
    /\ params = NotBuilt
    /\ out = NoOut
    /\ desc = NoDesc

NewBaseFilter(v) ==
    /\ variant' = v
    /\ chain' = <<>>
    /\ params' = NotBuilt
    /\ out' = NoOut
    /\ desc' = NoDesc
    /\ UNCHANGED <<L, notFilter>>

Wrap(d) ==
    /\ Len(chain) < MaxFilterChain
    /\ chain' = Append(chain, d)
    /\ params' = NotBuilt
    /\ out' = NoOut
    /\ desc' = NoDesc
    /\ UNCHANGED <<L, variant, notFilter>>

NewCategoryFilter(category) == Wrap(CategoryFilter(variant, category))

NewSearchFilter(searchTerm) == Wrap(SearchFilter(variant, searchTerm))

NewPriceRangeFilter(minPrice, maxPrice) ==
    Wrap(PriceRangeFilter(variant, minPrice, maxPrice))

NewDiscountFilter(onlyWithDiscount, fn) ==
    /\ variant = "sync"
    /\ Wrap(DiscountFilter(onlyWithDiscount, fn))

NewStockFilter(inStockOnly) ==
    /\ variant = "async"
    /\ Wrap(StockFilter(inStockOnly))

\* the factory is static and starts from a BaseFilter of its own; the
\* workbench calls it when it holds a bare BaseFilter
CallCreateCompleteFilter(v, category, searchTerm, minPrice, maxPrice, flag, fn) ==
    /\ chain = <<>>
    /\ v = "async" => fn = NoFn
    /\ variant' = v
    /\ chain' = createCompleteFilter(v, category, searchTerm, minPrice, maxPrice,
                                     flag, fn)
    /\ params' = Built(category, searchTerm, minPrice, maxPrice, flag, fn)
    /\ out' = NoOut
    /\ desc' = NoDesc
    /\ UNCHANGED <<L, notFilter>>

CallFilter ==
    /\ out' = [called |-> TRUE] @@ filter(variant, chain, L)
    /\ desc' = NoDesc
    /\ UNCHANGED <<L, variant, chain, params, notFilter>>

CallGetDescription ==
    /\ desc' = [called |-> TRUE, text |-> getDescription(variant, chain)]
    /\ out' = NoOut
    /\ UNCHANGED <<L, variant, chain, params, notFilter>>

InitPriceIdle ==
    /\ calc = <<>>
    /\ prod = pA
    /\ tot = NoTotal

NextFilter ==
    \/ \E v \in Variants : NewBaseFilter(v)
    \/ \E K \in FilterCategories : NewCategoryFilter(K)
    \/ \E t \in SearchTerms : NewSearchFilter(t)
    \/ \E lo \in MinPrices, hi \in MaxPrices : NewPriceRangeFilter(lo, hi)
    \/ \E b \in BOOLEAN, fn \in PriceFns : NewDiscountFilter(b, fn)
    \/ \E b \in BOOLEAN : NewStockFilter(b)
    \/ \E v \in Variants, K \in FactoryCategories, t \in FactorySearchTerms,
          lo \in MinPrices, hi \in MaxPrices, b \in BOOLEAN, fn \in PriceFns :
          CallCreateCompleteFilter(v, K, t, lo, hi, b, fn)
    \/ CallFilter
    \/ CallGetDescription

FilterInit == InitFilter /\ InitPriceIdle /\ InitControllerIdle /\ InitServiceIdle /\ InitLaterIdle

SpecFilter == FilterInit /\ [][NextFilter]_vars

(***************************************************************************)
(* ProductController and ProductControllerDB: the price calculator they    *)
(* hold.  A percent is carried in hundredths: ProductController takes the  *)
(* fraction (0.10 is 10), ProductControllerDB takes the points (10) and    *)
(* divides them by 100.  log records the calls made, oldest first.         *)
(***************************************************************************)
MaxOps == 3

Controllers == {"ProductController", "ProductControllerDB"}
ControllerPercents == {0, 5, 10, 150}
ControllerProducts == {pF, pC, pE}

Reply(success, calculator) == [success |-> success, priceCalculator |-> calculator]

\* slip: only a negative percent is refused
refused_negativeOnly(ctl, percent) == ctl = "ProductControllerDB" /\ percent < 0

\* ProductControllerDB refuses a percent that is not in 1..100
refused(ctl, percent) ==
    ctl = "ProductControllerDB" /\ (percent <= 0 \/ percent > 100)

\* slip: the category rule wraps the calculator in place
applyCategoryDiscount_extending(ctl, calculator, category, percent) ==
    IF refused(ctl, percent) THEN Reply(FALSE, calculator)
    ELSE Reply(TRUE, Append(calculator, CategoryPercentOff(category, percent)))

applyCategoryDiscount(ctl, calculator, category, percent) ==
    IF refused(ctl, percent) THEN Reply(FALSE, calculator)
    ELSE Reply(TRUE, <<CategoryPercentOff(category, percent)>>)

\* slip: the coupon wraps a new BasicPrice, dropping the discounts before it
applyCouponDiscount_overBasic(ctl, calculator, percent) ==
    IF refused(ctl, percent) THEN Reply(FALSE, calculator)
    ELSE Reply(TRUE, <<CouponPercentOff(percent)>>)

applyCouponDiscount(ctl, calculator, percent) ==
    IF refused(ctl, percent) THEN Reply(FALSE, calculator)
    ELSE Reply(TRUE, Append(calculator, CouponPercentOff(percent)))

\* slip: the price calculator is left as it was
clearDiscounts_keep(ctl, calculator) == Reply(TRUE, calculator)

clearDiscounts(ctl, calculator) == Reply(TRUE, <<>>)

calculateFinalPrice(calculator, product) == total(calculator, product)

\* getProductPriceInfo of ProductController, calculateFinalPrice of
\* ProductControllerDB
getProductPriceInfo(calculator, product) ==
    LET originalPrice == product.price
        finalPrice == calculateFinalPrice(calculator, product)
        discount == Rat(originalPrice * finalPrice.d - finalPrice.n, finalPrice.d)
        discountPercentage ==
            IF originalPrice > 0
            THEN Rat(discount.n * 100, discount.d * originalPrice)
            ELSE RatOfInt(0)
    IN  [called |-> TRUE, product |-> product, originalPrice |-> originalPrice,
         finalPrice |-> finalPrice, discount |-> discount,
         discountPercentage |-> discountPercentage]

Call(op, category, percent, success) ==
    [op |-> op, category |-> category, percent |-> percent, success |-> success]

InitController ==
    /\ controller \in Controllers
    /\ priceCalculator = <<>>
    /\ log = <<>>
    /\ info = NoInfo

CallApplyCategoryDiscount(K, pc) ==
    LET r == applyCategoryDiscount(controller, priceCalculator, K, pc)
    IN  /\ Len(log) < MaxOps
        /\ priceCalculator' = r.priceCalculator
        /\ log' = Append(log, Call("applyCategoryDiscount", K, pc, r.success))
        /\ info' = NoInfo
        /\ UNCHANGED <<controller, notController>>

CallApplyCouponDiscount(pc) ==
    LET r == applyCouponDiscount(controller, priceCalculator, pc)
    IN  /\ Len(log) < MaxOps
        /\ priceCalculator' = r.priceCalculator
        /\ log' = Append(log, Call("applyCouponDiscount", <<>>, pc, r.success))
        /\ info' = NoInfo
        /\ UNCHANGED <<controller, notController>>

CallClearDiscounts ==
    LET r == clearDiscounts(controller, priceCalculator)
    IN  /\ Len(log) < MaxOps
        /\ priceCalculator' = r.priceCalculator
        /\ log' = Append(log, Call("clearDiscounts", <<>>, 0, r.success))
        /\ info' = NoInfo
        /\ UNCHANGED <<controller, notController>>

CallGetProductPriceInfo(P) ==
    /\ info' = getProductPriceInfo(priceCalculator, P)
    /\ UNCHANGED <<controller, priceCalculator, log, notController>>

NextController ==
    \/ \E K \in PriceCategories, pc \in ControllerPercents :
          CallApplyCategoryDiscount(K, pc)
    \/ \E pc \in ControllerPercents : CallApplyCouponDiscount(pc)
    \/ CallClearDiscounts
    \/ \E P \in ControllerProducts : CallGetProductPriceInfo(P)

ControllerInit ==
    InitController /\ InitPriceIdle /\ InitFilterIdle /\ InitServiceIdle /\ InitLaterIdle

SpecController == ControllerInit /\ [][NextController]_vars

(***************************************************************************)
(* ProductService: the in-memory catalog.  lastCall records the last call, *)
(* the name it was given and the catalog it found; result is what the call *)
(* returned, or "error" when it threw.                                     *)
(***************************************************************************)
ServiceNames == {<<"A">>, <<"a">>, <<"B">>}
ServiceProducts ==
    {Product(n, c, 10, Undefined, NoNum) : n \in ServiceNames, c \in PriceCategories}
UpdateCategories == {Undefined, books}
UpdatePrices == {NoNum, Num(0), Num(30)}

\* slip: the names are compared as they are written
findProductByName_caseSensitive(products, name) ==
    IF \E i \in 1..Len(products) : products[i].name = name
    THEN CHOOSE i \in 1..Len(products) :
            /\ products[i].name = name
            /\ \A j \in 1..(i - 1) : products[j].name # name
    ELSE 0

\* Array.prototype.find / findIndex on the name ignoring case: the index of the
\* first product of that name, 0 when there is none
findProductByName(products, name) ==
    IF \E i \in 1..Len(products) : toLowerCase(products[i].name) = toLowerCase(name)
    THEN CHOOSE i \in 1..Len(products) :
            /\ toLowerCase(products[i].name) = toLowerCase(name)
            /\ \A j \in 1..(i - 1) : toLowerCase(products[j].name) # toLowerCase(name)
    ELSE 0

Returned(value, products) == [value |-> value, products |-> products]

addProduct(products, product) ==
    IF findProductByName(products, product.name) # 0
    THEN Returned("error", products)
    ELSE Returned("void", Append(products, product))

removeProduct(products, name) ==
    LET index == IF \E i \in 1..Len(products) :
                       toLowerCase(products[i].name) = toLowerCase(name)
                 THEN CHOOSE i \in 1..Len(products) :
                        /\ toLowerCase(products[i].name) = toLowerCase(name)
                        /\ \A j \in 1..(i - 1) :
                              toLowerCase(products[j].name) # toLowerCase(name)
                 ELSE 0
    IN  IF index # 0
        THEN Returned("true", SubSeq(products, 1, index - 1)
                                \o SubSeq(products, index + 1, Len(products)))
        ELSE Returned("false", products)

updateProduct(products, name, category, price) ==
    LET index == findProductByName(products, name)
        product == products[index]
        withCategory ==
            IF truthy(category) THEN [product EXCEPT !.category = category]
            ELSE product
        withPrice ==
            IF IsNum(price) /\ price[1] > 0
            THEN [withCategory EXCEPT !.price = price[1]]
            ELSE withCategory
    IN  IF index = 0 THEN Returned("false", products)
        ELSE Returned("true", [products EXCEPT ![index] = withPrice])

clearAllProducts(products) == Returned("void", <<>>)

InitService ==
    /\ catalog = <<>>
    /\ lastCall = NoCall
    /\ result = "none"

Done(op, name, r) ==
    /\ catalog' = r.products
    /\ lastCall' = [op |-> op, name |-> name, before |-> catalog]
    /\ result' = r.value
    /\ UNCHANGED notService

CallAddProduct(product) ==
    Done("addProduct", product.name, addProduct(catalog, product))

CallRemoveProduct(name) ==
    Done("removeProduct", name, removeProduct(catalog, name))

CallUpdateProduct(name, category, price) ==
    Done("updateProduct", name, updateProduct(catalog, name, category, price))

CallClearAllProducts ==
    Done("clearAllProducts", <<>>, clearAllProducts(catalog))

NextService ==
    \/ \E product \in ServiceProducts : CallAddProduct(product)
    \/ \E name \in ServiceNames : CallRemoveProduct(name)
    \/ \E name \in ServiceNames, category \in UpdateCategories, price \in UpdatePrices :
          CallUpdateProduct(name, category, price)
    \/ CallClearAllProducts

ServiceInit ==
    InitService /\ InitPriceIdle /\ InitFilterIdle /\ InitControllerIdle /\ InitLaterIdle

SpecService == ServiceInit /\ [][NextService]_vars

(***************************************************************************)
(* applyProductFilters of the server and ProductFilterService              *)
(* .filterProducts: the whole catalog is read, filtered by the chain of    *)
(* the async factory, and cut to a page.                                   *)
(***************************************************************************)
InitEarlierIdle ==
    InitPriceIdle /\ InitFilterIdle /\ InitControllerIdle /\ InitServiceIdle

PageCategories == {Undefined, books}
Limits == {NoNum, Num(0), Num(1), Num(2)}
Offsets == {NoNum, Num(0), Num(1), Num(3)}

FilterParams(category, inStockOnly, limit, offset) ==
    [category |-> category, search |-> Undefined, minPrice |-> NoNum,
     maxPrice |-> NoNum, inStockOnly |-> inStockOnly, limit |-> limit,
     offset |-> offset]

\* Array.prototype.slice(from, to) with 0 <= from <= to
slice(s, from, to) == SubSeq(s, from + 1, IF to < Len(s) THEN to ELSE Len(s))

\* x || 0 of an optional number
orZero(x) == IF IsNum(x) THEN x[1] ELSE 0

NoPagination == <<>>
Pagination(limit, offset, hasNext) ==
    <<[limit |-> limit, offset |-> offset, hasNext |-> hasNext]>>

NoResponse ==
    [called |-> FALSE, success |-> FALSE, data |-> <<>>, total |-> 0,
     filtered |-> 0, original |-> 0, filter |-> <<>>, pagination |-> NoPagination]

applyProductFilters(all, fp) ==
    LET f == createCompleteFilter("async", fp.category, fp.search, fp.minPrice,
                                  fp.maxPrice, fp.inStockOnly, NoFn)
        filteredProducts == filter("async", f, all)
        list == filteredProducts.val
        paginatedProducts ==
            IF IsNum(fp.limit)
            THEN slice(list, orZero(fp.offset), orZero(fp.offset) + fp.limit[1])
            ELSE list
    IN  IF filteredProducts.err THEN [NoResponse EXCEPT !.called = TRUE]
        ELSE [called |-> TRUE, success |-> TRUE, data |-> paginatedProducts,
              total |-> Len(list), filtered |-> Len(list), original |-> Len(all),
              filter |-> getDescription("async", f),
              pagination |->
                  IF IsNum(fp.limit) /\ fp.limit[1] # 0
                  THEN Pagination(fp.limit[1], orZero(fp.offset),
                                  orZero(fp.offset) + fp.limit[1] < Len(list))
                  ELSE NoPagination]

InitPage ==
    /\ allProducts \in Lists
    /\ filterParams = FilterParams(Undefined, FALSE, NoNum, NoNum)
    /\ response = NoResponse

CallApplyProductFilters(fp) ==
    /\ filterParams' = fp
    /\ response' = applyProductFilters(allProducts, fp)
    /\ UNCHANGED <<allProducts, notPage>>

NextPage ==
    \E category \in PageCategories, inStockOnly \in BOOLEAN,
       limit \in Limits, offset \in Offsets :
        CallApplyProductFilters(FilterParams(category, inStockOnly, limit, offset))

PageInit ==
    /\ InitPage
    /\ InitEarlierIdle
    /\ InitUserIdle
    /\ InitRepositoryIdle
    /\ InitDiscountIdle
    /\ InitRequestIdle

SpecPage == PageInit /\ [][NextPage]_vars

(***************************************************************************)
(* UserService: the in-memory list of users.  userCall records the last    *)
(* call and the list it found; userResult is what the call returned, or    *)
(* "error" when it threw.                                                  *)
(***************************************************************************)
MaxUsers == 2

emailAB == <<"a","@","b",".","c">>
emailDB == <<"d","@","b",".","c">>
emailNoDot == <<"a","@","b">>
Emails == {emailAB, emailDB, emailNoDot}
UserIds == {1, 2}
UserEmailUpdates == Emails \cup {Undefined}
UserNameUpdates == {Undefined, <<"m">>}

User(id, email) == [id |-> id, name |-> <<"n">>, email |-> email]

\* /^[^\s@]+@[^\s@]+\.[^\s@]+$/ : one @, no white space, something before the
\* @ and, after it, a dot with something on both sides
isEmailValid(email) ==
    \E i \in 2..Len(email) :
        /\ email[i] = "@"
        /\ \A j \in 1..Len(email) : j # i => email[j] \notin {"@", " "}
        /\ \E k \in (i + 2)..(Len(email) - 1) : email[k] = "."

\* Array.prototype.find by id / by email: the index of the first, 0 for none
getUserById(list, id) ==
    IF \E i \in 1..Len(list) : list[i].id = id
    THEN CHOOSE i \in 1..Len(list) :
            list[i].id = id /\ \A j \in 1..(i - 1) : list[j].id # id
    ELSE 0

getUserByEmail(list, email) ==
    IF \E i \in 1..Len(list) : list[i].email = email
    THEN CHOOSE i \in 1..Len(list) :
            list[i].email = email /\ \A j \in 1..(i - 1) : list[j].email # email
    ELSE 0

UserReturned(value, list) == [value |-> value, users |-> list]

addUser(list, user) ==
    IF ~isEmailValid(user.email) THEN UserReturned("error", list)
    ELSE IF getUserByEmail(list, user.email) # 0 THEN UserReturned("error", list)
    ELSE UserReturned("void", Append(list, user))

removeUser(list, id) ==
    LET index == getUserById(list, id)
    IN  IF index # 0
        THEN UserReturned("true", SubSeq(list, 1, index - 1)
                                    \o SubSeq(list, index + 1, Len(list)))
        ELSE UserReturned("false", list)

\* The name is assigned before the email is looked at; the email tested is
\* the one the user has, and the new one is assigned untested.
updateUser(list, id, name, email) ==
    LET index == getUserById(list, id)
        user == list[index]
        named == IF truthy(name) THEN [list EXCEPT ![index].name = name] ELSE list
    IN  IF index = 0 THEN UserReturned("false", list)
        ELSE IF truthy(email)
        THEN IF ~isEmailValid(user.email) THEN UserReturned("error", named)
             ELSE UserReturned("true", [named EXCEPT ![index].email = email])
        ELSE UserReturned("true", named)

NoUserCall == [op |-> "none", before |-> <<>>]

InitUser ==
    /\ users = <<>>
    /\ userCall = NoUserCall
    /\ userResult = "none"

UserDone(op, r) ==
    /\ users' = r.users
    /\ userCall' = [op |-> op, before |-> users]
    /\ userResult' = r.value
    /\ UNCHANGED notUser

CallAddUser(id, email) ==
    /\ Len(users) < MaxUsers
    /\ UserDone("addUser", addUser(users, User(id, email)))

CallRemoveUser(id) == UserDone("removeUser", removeUser(users, id))

CallUpdateUser(id, name, email) ==
    UserDone("updateUser", updateUser(users, id, name, email))

NextUser ==
    \/ \E id \in UserIds, email \in Emails : CallAddUser(id, email)
    \/ \E id \in UserIds : CallRemoveUser(id)
    \/ \E id \in UserIds, name \in UserNameUpdates, email \in UserEmailUpdates :
          CallUpdateUser(id, name, email)

UserInit ==
    /\ InitUser
    /\ InitEarlierIdle
    /\ InitPageIdle
    /\ InitRepositoryIdle
    /\ InitDiscountIdle
    /\ InitRequestIdle

SpecUser == UserInit /\ [][NextUser]_vars

(***************************************************************************)
(* The catalog, in memory (ProductController over ProductService) and in   *)
(* the database (ProductRepository over the products table).  A row of the *)
(* table is never deleted: removal clears its is_active flag, and the name *)
(* column is UNIQUE over all the rows.  A run uses one of the two stores.  *)
(***************************************************************************)
KnownCategories == {eletronicos, livros, alimentos}
RepositoryNames == {<<"A">>, <<"B">>, <<>>}
RepositoryCategories == {livros, books}
RepositoryPrices == {0, 10}
RepositoryProducts ==
    {Product(n, c, pr, <<>>, Num(0)) :
        n \in RepositoryNames, c \in RepositoryCategories, pr \in RepositoryPrices}
RowIds == {1, 2}

\* slip: the price is not looked at
isValid_anyPrice(product) ==
    /\ product.name # <<>>
    /\ product.category # <<>>
    /\ \E c \in KnownCategories : c = product.category

\* Product.isValid
isValid(product) ==
    /\ product.name # <<>>
    /\ product.category # <<>>
    /\ product.price > 0
    /\ \E c \in KnownCategories : c = product.category

Row(id, product, active) ==
    [id |-> id, name |-> product.name, category |-> product.category,
     price |-> product.price, is_active |-> active]

DbFailure == [success |-> FALSE, affectedRows |-> 0]
DbSuccess(affectedRows) == [success |-> TRUE, affectedRows |-> affectedRows]
Stored(r, rows) == [result |-> r, table |-> rows]

\* INSERT INTO products: refused by the UNIQUE key when a row, active or not,
\* has the name
create(rows, product) ==
    IF ~isValid(product) THEN Stored(DbFailure, rows)
    ELSE IF \E i \in 1..Len(rows) : rows[i].name = product.name
    THEN Stored(DbFailure, rows)
    ELSE Stored(DbSuccess(1), Append(rows, Row(Len(rows) + 1, product, TRUE)))

\* UPDATE products SET ... WHERE id = ? AND is_active = TRUE
update(rows, id, product) ==
    IF ~isValid(product) THEN Stored(DbFailure, rows)
    ELSE IF ~\E i \in 1..Len(rows) : rows[i].id = id /\ rows[i].is_active
    THEN Stored(DbSuccess(0), rows)
    ELSE IF \E i \in 1..Len(rows) : rows[i].id # id /\ rows[i].name = product.name
    THEN Stored(DbFailure, rows)
    ELSE Stored(DbSuccess(1),
                [i \in 1..Len(rows) |->
                    IF rows[i].id = id THEN Row(id, product, TRUE) ELSE rows[i]])

\* UPDATE products SET is_active = FALSE WHERE name = ?  The rows counted
\* are the rows found, or only the rows changed, as the connection is set up.
deleteByName(rows, name, countFound) ==
    LET hit(i) == rows[i].name = name /\ (countFound \/ rows[i].is_active)
    IN  Stored(DbSuccess(Cardinality({i \in 1..Len(rows) : hit(i)})),
               [i \in 1..Len(rows) |->
                   IF rows[i].name = name THEN [rows[i] EXCEPT !.is_active = FALSE]
                   ELSE rows[i]])

\* SELECT ... WHERE p.name = ? AND p.is_active = TRUE: the rows returned
findByName(rows, name) ==
    SelectSeq(rows, LAMBDA r : r.name = name /\ r.is_active)

\* ProductController.addProduct over the in-memory ProductService
ControllerNames == {<<"A">>, <<" ">>, <<>>}
ControllerPrices == {0, 10}

controllerAddProduct(products, name, category, price) ==
    IF name = <<>> \/ trim(name) = <<>> THEN Returned("rejected", products)
    ELSE IF price <= 0 THEN Returned("rejected", products)
    ELSE LET r == addProduct(products, Product(trim(name), category, price,
                                               Undefined, NoNum))
         IN  IF r.value = "error" THEN Returned("rejected", products)
             ELSE Returned("added", r.products)

NoProduct(name) == Product(name, <<>>, 0, <<>>, Num(0))
NoDbCall ==
    [op |-> "none", product |-> NoProduct(<<>>), valid |-> FALSE, before |-> <<>>]

InitRepository ==
    /\ table = <<>>
    /\ dbCall = NoDbCall
    /\ dbResult = DbFailure

DbDone(op, product, r) ==
    /\ table' = r.table
    /\ dbCall' = [op |-> op, product |-> product, valid |-> isValid(product),
                  before |-> table]
    /\ dbResult' = r.result
    /\ UNCHANGED notRepository

CallCreate(product) ==
    /\ lastCall = NoCall
    /\ DbDone("create", product, create(table, product))

CallUpdate(id, product) ==
    /\ lastCall = NoCall
    /\ DbDone("update", product, update(table, id, product))

CallDeleteByName(name, countFound) ==
    /\ lastCall = NoCall
    /\ table' = deleteByName(table, name, countFound).table
    /\ dbCall' = [op |-> "deleteByName", product |-> NoProduct(name),
                  valid |-> FALSE, before |-> table]
    /\ dbResult' = deleteByName(table, name, countFound).result
    /\ UNCHANGED notRepository

CallControllerAddProduct(name, category, price) ==
    /\ dbCall = NoDbCall
    /\ Done("controllerAddProduct", name,
            controllerAddProduct(catalog, name, category, price))

InMemory ==
    /\ dbCall = NoDbCall
    /\ NextService

NextCatalog ==
    \/ \E product \in RepositoryProducts : CallCreate(product)
    \/ \E id \in RowIds, product \in RepositoryProducts : CallUpdate(id, product)
    \/ \E name \in RepositoryNames, countFound \in BOOLEAN :
          CallDeleteByName(name, countFound)
    \/ \E name \in ControllerNames, category \in PriceCategories,
          price \in ControllerPrices :
          CallControllerAddProduct(name, category, price)
    \/ InMemory

CatalogInit ==
    /\ InitRepository
    /\ InitEarlierIdle
    /\ InitPageIdle
    /\ InitUserIdle
    /\ InitDiscountIdle
    /\ InitRequestIdle

SpecCatalog == CatalogInit /\ [][NextCatalog]_vars

(***************************************************************************)
(* ProductApp of the browser: the active discounts.  A percentage is the   *)
(* number typed in the form, in points; NoNum is what parseFloat gives for *)
(* a field that holds no number.  stamp is the Date.now() of the call.     *)
(***************************************************************************)
FormCategories == {<<>>, eletronicos, livros}
FormPercents == {NoNum, Num(0), Num(10), Num(95), Num(100), Num(150)}
Stamps == {1}
AppProducts == {pI, pG, pH}

CategoryDiscount(categoria, percentual, stamp) ==
    [id |-> <<"category", categoria, stamp>>, type |-> "Categoria",
     category |-> categoria, percentage |-> percentual]

CouponDiscount(percentual, stamp) ==
    [id |-> <<"coupon", <<>>, stamp>>, type |-> "Cupom",
     category |-> Undefined, percentage |-> percentual]

DiscountIds ==
    {CategoryDiscount(c, 1, st).id : c \in FormCategories, st \in Stamps}
        \cup {CouponDiscount(1, st).id : st \in Stamps}

\* isNaN(percentual) || percentual <= 0 || percentual > 100
badPercent(percentual) ==
    ~IsNum(percentual) \/ percentual[1] <= 0 \/ percentual[1] > 100

ProductApp_applyCategoryDiscount(discounts, categoria, percentual, stamp) ==
    IF categoria = <<>> THEN discounts
    ELSE IF badPercent(percentual) THEN discounts
    ELSE Append(SelectSeq(discounts, LAMBDA d :
                    ~(d.type = "Categoria" /\ d.category = categoria)),
                CategoryDiscount(categoria, percentual[1], stamp))

\* slip: the coupon in place is kept
ProductApp_applyCouponDiscount_keeping(discounts, percentual, stamp) ==
    IF badPercent(percentual) THEN discounts
    ELSE Append(discounts, CouponDiscount(percentual[1], stamp))

ProductApp_applyCouponDiscount(discounts, percentual, stamp) ==
    IF badPercent(percentual) THEN discounts
    ELSE Append(SelectSeq(discounts, LAMBDA d : d.type # "Cupom"),
                CouponDiscount(percentual[1], stamp))

ProductApp_removeDiscount(discounts, discountId) ==
    SelectSeq(discounts, LAMBDA d : d.id # discountId)

ProductApp_clearDiscounts(discounts) == <<>>

\* Array.prototype.find: the percentage of the first discount that fits, 0
\* when there is none
categoryDiscount(discounts, product) ==
    LET found == SelectSeq(discounts, LAMBDA d :
                     d.type = "Categoria" /\ d.category = product.category)
    IN  IF found = <<>> THEN 0 ELSE found[1].percentage

couponDiscount(discounts) ==
    LET found == SelectSeq(discounts, LAMBDA d : d.type = "Cupom")
    IN  IF found = <<>> THEN 0 ELSE found[1].percentage

getTotalDiscountPercentage(discounts, product) ==
    LET totalDiscountPercentage ==
            categoryDiscount(discounts, product) + couponDiscount(discounts)
    IN  IF totalDiscountPercentage < 100 THEN totalDiscountPercentage ELSE 100

\* slip: the percentages are compounded, as the decorators do
ProductApp_calculateFinalPrice_compound(discounts, product) ==
    RatOff(RatOff(RatOfInt(product.price), categoryDiscount(discounts, product)), couponDiscount(discounts))

ProductApp_calculateFinalPrice(discounts, product) ==
    Rat(product.price * (100 - getTotalDiscountPercentage(discounts, product)), 100)

AppCall(op, categoria, percentual, before, product, finalPrice) ==
    [op |-> op, categoria |-> categoria, percentual |-> percentual,
     before |-> before, product |-> product, finalPrice |-> finalPrice]

NoAppCall == AppCall("none", <<>>, NoNum, <<>>, pI, RatOfInt(0))

InitDiscount ==
    /\ activeDiscounts = <<>>
    /\ appCall = NoAppCall

AppApplyCategoryDiscount(categoria, percentual, stamp) ==
    /\ activeDiscounts' =
          ProductApp_applyCategoryDiscount(activeDiscounts, categoria, percentual, stamp)
    /\ appCall' = AppCall("applyCategoryDiscount", categoria, percentual,
                          activeDiscounts, pI, RatOfInt(0))
    /\ UNCHANGED notDiscount

AppApplyCouponDiscount(percentual, stamp) ==
    /\ activeDiscounts' =
          ProductApp_applyCouponDiscount(activeDiscounts, percentual, stamp)
    /\ appCall' = AppCall("applyCouponDiscount", <<>>, percentual,
                          activeDiscounts, pI, RatOfInt(0))
    /\ UNCHANGED notDiscount

\* the remove button of a discount that is shown
AppRemoveDiscount(discountId) ==
    /\ \E k \in 1..Len(activeDiscounts) : activeDiscounts[k].id = discountId
    /\ activeDiscounts' = ProductApp_removeDiscount(activeDiscounts, discountId)
    /\ appCall' = AppCall("removeDiscount", <<>>, NoNum, activeDiscounts, pI, RatOfInt(0))
    /\ UNCHANGED notDiscount

AppClearDiscounts ==
    /\ activeDiscounts' = ProductApp_clearDiscounts(activeDiscounts)
    /\ appCall' = AppCall("clearDiscounts", <<>>, NoNum, activeDiscounts, pI, RatOfInt(0))
    /\ UNCHANGED notDiscount

AppCalculateFinalPrice(product) ==
    /\ appCall' = AppCall("calculateFinalPrice", <<>>, NoNum, activeDiscounts, product,
                          ProductApp_calculateFinalPrice(activeDiscounts, product))
    /\ UNCHANGED <<activeDiscounts, notDiscount>>

NextDiscount ==
    \/ \E categoria \in FormCategories, percentual \in FormPercents, stamp \in Stamps :
          AppApplyCategoryDiscount(categoria, percentual, stamp)
    \/ \E percentual \in FormPercents, stamp \in Stamps :
          AppApplyCouponDiscount(percentual, stamp)
    \/ \E discountId \in DiscountIds : AppRemoveDiscount(discountId)
    \/ AppClearDiscounts
    \/ \E product \in AppProducts : AppCalculateFinalPrice(product)

DiscountInit ==
    /\ InitDiscount
    /\ InitEarlierIdle
    /\ InitPageIdle
    /\ InitUserIdle
    /\ InitRepositoryIdle
    /\ InitRequestIdle

SpecDiscount == DiscountInit /\ [][NextDiscount]_vars

(***************************************************************************)
(* ProductApp of the browser: applyFilters.  Every change of the category  *)
(* select and every input event of the search box starts a request; the    *)
(* handler resumes when its response arrives and stores it in              *)
(* this.products.  Responses arrive in any order.                          *)
(***************************************************************************)
MaxRequests == 3

ServerCatalog == <<pB, pC, pD>>
SelectValues == {<<>>, books}
SearchValues == {<<>>, <<" ">>, tolkien}

\* the product the browser keeps of an item of the response
AppProduct(item) ==
    [name |-> item.name, category |-> item.category, price |-> item.price,
     description |-> IF truthy(item.description) THEN item.description ELSE <<>>,
     stock |-> IF IsNum(item.stock_quantity) /\ item.stock_quantity[1] # 0
               THEN item.stock_quantity ELSE Num(0)]

\* applyFilters: the trimmed values of the two fields, kept when not empty
filterParamsOf(categoria, busca) ==
    [category |-> IF trim(categoria) # <<>> THEN trim(categoria) ELSE Undefined,
     search |-> IF trim(busca) # <<>> THEN trim(busca) ELSE Undefined]

\* GET /api/products/filter with the parameters, GET /api/products without
serverData(fp) ==
    IF fp.category = Undefined /\ fp.search = Undefined THEN ServerCatalog
    ELSE applyProductFilters(ServerCatalog,
            [FilterParams(fp.category, FALSE, NoNum, NoNum)
                EXCEPT !.search = fp.search]).data

responseProducts(fp) ==
    [i \in 1..Len(serverData(fp)) |-> AppProduct(serverData(fp)[i])]

Request(seq, fp) == [seq |-> seq, filterParams |-> fp]

InitRequest ==
    /\ appProducts = <<>>
    /\ pending = {}
    /\ issued = <<>>

\* applyFilters up to its await of fetch
ApplyFilters(categoria, busca) ==
    /\ Len(issued) < MaxRequests
    /\ issued' = Append(issued, filterParamsOf(categoria, busca))
    /\ pending' = pending \cup
                    {Request(Len(issued) + 1, filterParamsOf(categoria, busca))}
    /\ UNCHANGED <<appProducts, notRequest>>

\* loadProductsFromAPI from the arrival of its response
ResponseArrives(seq) ==
    /\ \E r \in pending : r.seq = seq
    /\ LET r == CHOOSE q \in pending : q.seq = seq
       IN  /\ appProducts' = responseProducts(r.filterParams)
           /\ pending' = pending \ {r}
    /\ UNCHANGED <<issued, notRequest>>

NextRequest ==
    \/ \E categoria \in SelectValues, busca \in SearchValues :
          ApplyFilters(categoria, busca)
    \/ \E seq \in 1..MaxRequests : ResponseArrives(seq)

RequestInit ==
    /\ InitRequest
    /\ InitEarlierIdle
    /\ InitPageIdle
    /\ InitUserIdle
    /\ InitRepositoryIdle
    /\ InitDiscountIdle

SpecRequest == RequestInit /\ [][NextRequest]_vars

(***************************************************************************)
(* Properties of the price chain                                           *)
(***************************************************************************)
applies(d, p) ==
    \/ d.kind = "CouponPercentOff"
    \/ d.kind = "CategoryPercentOff" /\ d.category = p.category

onlyPercentRules(c) ==
    \A i \in 1..Len(c) : c[i].kind \in {"CategoryPercentOff", "CouponPercentOff"}

\* p.price times (1 - p_i) for every applicable rule, taken outermost first
RECURSIVE compounded(_, _, _)
compounded(x, c, p) ==
    IF c = <<>> THEN x
    ELSE compounded(IF applies(Last(c), p) THEN RatOff(x, Last(c).percent) ELSE x,
                    Front(c), p)

chain171 == <<CategoryPercentOff(electronics, 10), CouponPercentOff(5)>>

\* C1: a chain of CategoryPercentOff and CouponPercentOff wrappers over
\* BasicPrice totals P.price times (1 - p_i) for every wrapper that applies
\* to P, each rule acting on the inner result; 200 with 0.10 for the
\* product's category and then 0.05 gives 171 and not the additive 170.
C1_Compounding ==
    (tot.called /\ onlyPercentRules(calc)) =>
        /\ tot.value = compounded(RatOfInt(prod.price), calc, prod)
        /\ (calc = chain171 /\ prod = pF) =>
               /\ tot.value = RatOfInt(171)
               /\ tot.value # RatOfInt(170)

C1_Witness ==
    tot.called /\ calc = chain171 /\ prod = pF /\ tot.value = RatOfInt(171)

\* C2: CategoryPercentOff(BasicPrice(), K, p).total(P) is P.price*(1-p) when
\* P.category equals K and P.price unchanged otherwise, for p in [0,1].
C2_CategoryPercentOff ==
    (/\ tot.called
     /\ Len(calc) = 1
     /\ calc[1].kind = "CategoryPercentOff"
     /\ calc[1].percent \in 0..100) =>
        IF prod.category = calc[1].category
        THEN tot.value.n * 100 = prod.price * (100 - calc[1].percent) * tot.value.d
        ELSE tot.value = RatOfInt(prod.price)

C2_WitnessMatch ==
    /\ tot.called
    /\ calc = <<CategoryPercentOff(electronics, 10)>>
    /\ prod = pA
    /\ tot.value = RatOfInt(90)

(***************************************************************************)
(* Properties of the filter chain                                          *)
(***************************************************************************)
\* product p passes decorator d taken alone
matches(v, d, p) == applyFilter(v, d, <<p>>) = Ok(<<p>>)

isCategorySearchPair(c) ==
    /\ Len(c) = 2
    /\ {c[1].kind, c[2].kind} = {"CategoryFilter", "SearchFilter"}
    /\ \A i \in 1..2 : c[i].kind = "CategoryFilter" => truthy(c[i].category)

\* C3: a category filter and a search filter compose as a conjunction that
\* does not depend on nesting order: either nesting returns exactly the
\* products of L that match the category and match the search term.
C3_Conjunction ==
    (out.called /\ isCategorySearchPair(chain)) =>
        /\ ~out.err
        /\ out.val = SelectSeq(L, LAMBDA p : /\ matches(variant, chain[1], p)
                                             /\ matches(variant, chain[2], p))
        /\ filter(variant, <<chain[2], chain[1]>>, L) = Ok(out.val)

C3_Witness ==
    /\ out.called
    /\ isCategorySearchPair(chain)
    /\ chain[1].kind = "SearchFilter"
    /\ out.val # <<>>
    /\ \E i \in 1..Len(L) : matches(variant, chain[2], L[i])
                            /\ ~matches(variant, chain[1], L[i])

\* C4: BaseFilter.filter(L) returns a list value-equal to L, and filtering
\* its own output again returns the same list.
C4_BaseFilterIdentity ==
    (out.called /\ chain = <<>>) =>
        /\ ~out.err
        /\ out.val = L
        /\ filter(variant, chain, out.val) = Ok(out.val)

C4_Witness == out.called /\ chain = <<>> /\ Len(L) = 2 /\ out.val = L

rank(kind) ==
    CASE kind = "CategoryFilter" -> 1
      [] kind = "SearchFilter" -> 2
      [] kind = "PriceRangeFilter" -> 3
      [] kind = "DiscountFilter" -> 4
      [] kind = "StockFilter" -> 4

hasKind(c, kinds) == \E i \in 1..Len(c) : c[i].kind \in kinds

\* C5: the chain returned by FilterFactory.createCompleteFilter nests
\* category (innermost), search, price range, stock/discount (outermost) in
\* that order and holds no wrapper for a parameter that is absent or empty.
C5_FactoryOrder ==
    params # NotBuilt =>
        LET a == params[1] IN
        /\ \A i, j \in 1..Len(chain) :
              i < j => rank(chain[i].kind) < rank(chain[j].kind)
        /\ (IsNullish(a.category) \/ a.category = <<>>)
              => ~hasKind(chain, {"CategoryFilter"})
        /\ (IsNullish(a.searchTerm) \/ a.searchTerm = <<>>)
              => ~hasKind(chain, {"SearchFilter"})
        /\ (~IsNum(a.minPrice) /\ ~IsNum(a.maxPrice))
              => ~hasKind(chain, {"PriceRangeFilter"})
        /\ ~a.flag => ~hasKind(chain, {"DiscountFilter", "StockFilter"})

C5_Witness ==
    /\ params # NotBuilt
    /\ Len(chain) = 4
    /\ chain[1].kind = "CategoryFilter"
    /\ chain[4].kind = "StockFilter"

\* C6: a chain built by the factory with category "electronics", minPrice 60
\* and no maxPrice returns exactly [A] for [A, B, C]; when only one of
\* minPrice/maxPrice is given to the factory the chain still enforces it.
C6_FactoryOneBound ==
    (params # NotBuilt /\ out.called) =>
        LET a == params[1] IN
        /\ (/\ a.category = electronics
            /\ ~truthy(a.searchTerm)
            /\ a.minPrice = Num(60)
            /\ ~IsNum(a.maxPrice)
            /\ ~a.flag
            /\ L = ScenarioList) => out.val = <<pA>>
        /\ (IsNum(a.minPrice) /\ ~IsNum(a.maxPrice)) =>
              \A i \in 1..Len(out.val) : out.val[i].price >= a.minPrice[1]
        /\ (~IsNum(a.minPrice) /\ IsNum(a.maxPrice)) =>
              \A i \in 1..Len(out.val) : out.val[i].price <= a.maxPrice[1]

\* the decorators' own fragments joined by " + ", innermost first
RECURSIVE joinedFragments(_, _)
joinedFragments(v, c) ==
    IF Len(c) = 1 THEN getOwnDescription(v, c[1])
    ELSE joinedFragments(v, Front(c)) \o JoinText \o getOwnDescription(v, Last(c))

\* C7: for a chain with at least one decorator getDescription() is the
\* decorators' own fragments joined by " + " in nesting order and never
\* holds the BaseFilter sentinel text; the sentinel is returned only for a
\* bare BaseFilter.
C7_NoSentinelInside ==
    desc.called =>
        /\ chain # <<>> =>
              /\ desc.text = joinedFragments(variant, chain)
              /\ ~includes(desc.text, SentinelText)
        /\ desc.text = SentinelText => chain = <<>>

BooksTolkienText ==
    <<"C","a","t","e","g","o","r","y",":"," ">> \o books \o JoinText \o <<"S","e","a","r","c","h",":"," ","\"">> \o tolkien \o QuoteText

\* C8: a chain built by the factory with only category "books" and search
\* "tolkien" is described exactly as: Category: books + Search: "tolkien",
\* without the BaseFilter sentinel text.
C8_BooksTolkienDescription ==
    (/\ desc.called
     /\ params = Built(books, tolkien, NoNum, NoNum, FALSE, NoFn)) =>
        /\ desc.text = BooksTolkienText
        /\ ~includes(desc.text, SentinelText)

\* C9: PriceRangeFilter(inner, min, max).filter keeps exactly the products of
\* inner's output with min <= price <= max, and a bound omitted at
\* construction places no restriction on that side (with min omitted a
\* product of zero or negative price not above max is kept).
C9_PriceRangeBounds ==
    \A lo \in MinPrices, hi \in MaxPrices :
        LET inner == filter(variant, Front(chain), L) IN
        (/\ out.called
         /\ chain # <<>>
         /\ Last(chain) = PriceRangeFilter(variant, lo, hi)
         /\ ~inner.err) =>
            out = [called |-> TRUE] @@
                  Ok(SelectSeq(inner.val, LAMBDA p :
                        /\ IsNum(lo) => lo[1] <= p.price
                        /\ IsNum(hi) => p.price <= hi[1]))

\* C10: CategoryFilter keeps exactly the products whose category equals the
\* configured category compared case-insensitively, in the synchronous and
\* in the asynchronous implementation alike, so both return the same
\* products for the same input.
C10_UniformCategoryPolicy ==
    (/\ out.called
     /\ Len(chain) = 1
     /\ chain[1].kind = "CategoryFilter"
     /\ truthy(chain[1].category)) =>
        LET K == chain[1].category IN
        /\ ~out.err
        /\ out.val = SelectSeq(L, LAMBDA p : toLowerCase(p.category) = toLowerCase(K))
        /\ filter("sync", <<CategoryFilter("sync", K)>>, L)
              = filter("async", <<CategoryFilter("async", K)>>, L)

\* the result of the filter wrapped by the outermost decorator of the chain
innerOut == filter(variant, Front(chain), L)

\* C11: a CategoryFilter whose category is null or absent is a pass-through:
\* filter(L) returns exactly what its inner filter returns and does not fail.
C11_NullCategoryPassThrough ==
    (/\ out.called
     /\ chain # <<>>
     /\ Last(chain).kind = "CategoryFilter"
     /\ IsNullish(Last(chain).category)) =>
        /\ ~out.err
        /\ out.val = innerOut.val

\* C12: SearchFilter(inner, term).filter keeps exactly the products of
\* inner's output whose name or description contains term ignoring letter
\* case (name only when there is no description), and returns inner's output
\* unchanged when term is empty or only whitespace.
C12_SearchFilter ==
    \A t \in SearchTerms :
        (/\ out.called
         /\ chain # <<>>
         /\ Last(chain) = SearchFilter(variant, t)
         /\ ~innerOut.err) =>
            /\ ~out.err
            /\ out.val =
                 IF \A i \in 1..Len(t) : t[i] = " " THEN innerOut.val
                 ELSE SelectSeq(innerOut.val, LAMBDA p :
                        \/ includes(toLowerCase(p.name), toLowerCase(t))
                        \/ /\ ~IsNullish(p.description)
                           /\ includes(toLowerCase(p.description), toLowerCase(t)))

\* C13: DiscountFilter with onlyWithDiscount = true and a pricing function f
\* keeps exactly the products p of inner's output with f(p) < p.price (equal
\* prices are dropped); without a pricing function, or with onlyWithDiscount
\* false, it returns inner's output unchanged and does not fail.
C13_DiscountFilter ==
    (/\ out.called
     /\ chain # <<>>
     /\ Last(chain).kind = "DiscountFilter"
     /\ ~innerOut.err) =>
        LET d == Last(chain) IN
        /\ ~out.err
        /\ out.val =
             IF d.flag /\ d.fn # NoFn
             THEN SelectSeq(innerOut.val, LAMBDA p :
                    LET f == total(d.fn[1], p) IN f.n < p.price * f.d)
             ELSE innerOut.val

C13_Witness ==
    /\ out.called
    /\ chain # <<>>
    /\ Last(chain) = DiscountFilter(TRUE, Fn(discountCalc))
    /\ out.val # <<>>
    /\ Len(out.val) < Len(innerOut.val)

\* a stock quantity that is a number, or a string of digits, above 0
positiveStock(x) ==
    \/ IsNum(x) /\ x[1] > 0
    \/ /\ IsStr(x)
       /\ x[2] # <<>>
       /\ \A i \in 1..Len(x[2]) : isDigit(x[2][i])
       /\ \E i \in 1..Len(x[2]) : x[2][i] # "0"

\* C14: StockFilter with inStockOnly = true keeps exactly the products of
\* inner's output whose stock quantity is greater than 0, a missing or
\* non-numeric stock counting as 0; with inStockOnly = false it returns
\* inner's output unchanged.
C14_StockFilter ==
    (/\ out.called
     /\ chain # <<>>
     /\ Last(chain).kind = "StockFilter"
     /\ ~innerOut.err) =>
        /\ ~out.err
        /\ out.val =
             IF Last(chain).flag
             THEN SelectSeq(innerOut.val, LAMBDA p : positiveStock(p.stock_quantity))
             ELSE innerOut.val

C14_Witness ==
    /\ out.called
    /\ chain = <<StockFilter(TRUE)>>
    /\ out.val # <<>>
    /\ \E i \in 1..Len(L) : L[i].stock_quantity = Num(0)
    /\ \E i \in 1..Len(L) : ~IsNum(L[i].stock_quantity)
                            /\ ~positiveStock(L[i].stock_quantity)

\* C15: filter() never ends in an error: every call on a built filter chain
\* returns a list, whatever the parameters of its decorators.
C15_NoRuntimeError ==
    out.called => ~out.err

validPercent(d) ==
    d.kind \in {"CategoryPercentOff", "CouponPercentOff"} => d.percent \in 0..100

\* C16: building a chain with an invalid parameter fails at construction: no
\* chain holding a CategoryPercentOff or CouponPercentOff whose percent is
\* outside the valid range later produces a result.
C16_ConstructionValidation ==
    tot.called => \A i \in 1..Len(calc) : validPercent(calc[i])

\* the fixed shipping amount of a category
shippingAmount(category) ==
    CASE category = <<"e","l","e","t","r","o","n","i","c","o","s">> -> 25
      [] category = <<"l","i","v","r","o","s">> -> 10
      [] category = <<"a","l","i","m","e","n","t","o","s">> -> 15
      [] OTHER -> 0

\* C17: ShippingDecorator.total(P) is inner.total(P) plus a fixed amount chosen
\* only by P.category (25 eletronicos, 10 livros, 15 alimentos, 0 otherwise),
\* never a percentage; so ShippingDecorator(CouponPercentOff(c, p)) gives
\* inner*(1-p)+s while CouponPercentOff(ShippingDecorator(c), p) gives
\* (inner+s)*(1-p).
C17_ShippingFixedAmount ==
    LET s == shippingAmount(prod.category)
        n == Len(calc)
    IN  /\ (tot.called /\ n >= 1 /\ calc[n].kind = "ShippingDecorator") =>
              LET inner == total(Front(calc), prod)
              IN  /\ tot.value.d = inner.d
                  /\ tot.value.n = inner.n + s * inner.d
        /\ (tot.called /\ n >= 2) =>
              LET inner == total(SubSeq(calc, 1, n - 2), prod)
              IN  /\ (/\ calc[n - 1].kind = "CouponPercentOff"
                      /\ calc[n].kind = "ShippingDecorator") =>
                         tot.value = RatPlusInt(RatOff(inner, calc[n - 1].percent), s)
                  /\ (/\ calc[n - 1].kind = "ShippingDecorator"
                      /\ calc[n].kind = "CouponPercentOff") =>
                         tot.value = RatOff(RatPlusInt(inner, s), calc[n].percent)

C17_Witness ==
    /\ tot.called
    /\ calc = <<CouponPercentOff(10), ShippingDecorator>>
    /\ prod = pH
    /\ tot.value # total(<<ShippingDecorator, CouponPercentOff(10)>>, prod)

\* the price after the coupons of the calls ops, taken oldest first
RECURSIVE couponsOff(_, _)
couponsOff(x, ops) ==
    IF ops = <<>> THEN x
    ELSE couponsOff(RatOff(x, ops[1].percent), Tail(ops))

\* C18: in ProductController, after applyCategoryDiscount(K, p1) followed by
\* applyCouponDiscount(p2), calculateFinalPrice(P) is P.price*(1-p1)*(1-p2)
\* for a product of category K and P.price*(1-p2) for any other; every
\* further applyCouponDiscount(p) multiplies the final price by (1-p).
C18_ControllerCompounding ==
    (controller = "ProductController" /\ info.called) =>
        \A i \in 1..(Len(log) - 1) :
            (/\ log[i].op = "applyCategoryDiscount"
             /\ \A j \in (i + 1)..Len(log) : log[j].op = "applyCouponDiscount") =>
                LET P == info.product
                    price == RatOfInt(P.price)
                    afterCategory ==
                        IF P.category = log[i].category
                        THEN RatOff(price, log[i].percent) ELSE price
                IN  info.finalPrice =
                        couponsOff(afterCategory, SubSeq(log, i + 1, Len(log)))

C18_Witness ==
    /\ controller = "ProductController"
    /\ info.called
    /\ info.product = pF
    /\ Len(log) = 3
    /\ log[1] = Call("applyCategoryDiscount", electronics, 10, TRUE)
    /\ log[2] = Call("applyCouponDiscount", <<>>, 5, TRUE)
    /\ log[3] = Call("applyCouponDiscount", <<>>, 10, TRUE)
    /\ info.finalPrice = Rat(1539, 10)

\* C19: after clearDiscounts(), whatever applyCategoryDiscount and
\* applyCouponDiscount calls came before, the final price of every product is
\* its price and the reported discount and discount percentage are 0, in
\* ProductController and in ProductControllerDB.
C19_ClearDiscounts ==
    (/\ info.called
     /\ log # <<>>
     /\ Last(log).op = "clearDiscounts") =>
        /\ info.finalPrice = RatOfInt(info.product.price)
        /\ info.discount = RatOfInt(0)
        /\ info.discountPercentage = RatOfInt(0)

C19_Witness ==
    /\ controller = "ProductControllerDB"
    /\ info.called
    /\ info.product = pF
    /\ Len(log) = 3
    /\ log[1] = Call("applyCategoryDiscount", electronics, 10, TRUE)
    /\ log[2] = Call("applyCouponDiscount", <<>>, 5, TRUE)
    /\ log[3].op = "clearDiscounts"
    /\ info.finalPrice = RatOfInt(200)

sameName(a, b) == toLowerCase(a) = toLowerCase(b)

\* C20: product names are a unique key of the catalog: after any sequence of
\* addProduct, removeProduct, updateProduct and clearAllProducts no two stored
\* products have names equal ignoring letter case, and an addProduct whose
\* name already exists raises an error and leaves the catalog unchanged.
C20_UniqueNames ==
    /\ \A i, j \in 1..Len(catalog) :
          i # j => ~sameName(catalog[i].name, catalog[j].name)
    /\ (/\ lastCall.op = "addProduct"
        /\ \E i \in 1..Len(lastCall.before) :
              sameName(lastCall.before[i].name, lastCall.name)) =>
           /\ result = "error"
           /\ catalog = lastCall.before

C20_Witness ==
    /\ lastCall.op = "addProduct"
    /\ lastCall.name = <<"a">>
    /\ Len(catalog) = 2
    /\ \E i \in 1..2 : catalog[i].name = <<"A">> /\ catalog[i].price = 30
    /\ result = "error"

\* C24: applyCategoryDiscount(K, p) replaces the controller's whole price
\* chain: immediately after it, whatever discounts and coupons came before,
\* the final price of P is P.price*(1-p) when P is of category K and P.price
\* otherwise, so one category rule is active and earlier coupons have no effect.
C24_CategoryDiscountReplaces ==
    (/\ info.called
     /\ log # <<>>
     /\ Last(log).op = "applyCategoryDiscount"
     /\ Last(log).success) =>
        LET P == info.product
        IN  /\ info.finalPrice =
                 IF P.category = Last(log).category
                 THEN Rat(P.price * (100 - Last(log).percent), 100)
                 ELSE RatOfInt(P.price)
            /\ Len(priceCalculator) = 1

C24_Witness ==
    /\ info.called
    /\ info.product = pF
    /\ Len(log) = 3
    /\ log[1] = Call("applyCategoryDiscount", books, 5, TRUE)
    /\ log[2] = Call("applyCouponDiscount", <<>>, 5, TRUE)
    /\ log[3] = Call("applyCategoryDiscount", electronics, 10, TRUE)
    /\ info.finalPrice = RatOfInt(180)

\* the calculator a ProductControllerDB holds after the calls of ops, when the
\* calls with a percent outside 1..100 have no effect
RECURSIVE acceptedOnly(_)
acceptedOnly(ops) ==
    IF ops = <<>> THEN <<>>
    ELSE LET c == Last(ops)
             before == acceptedOnly(Front(ops))
         IN  IF c.op = "clearDiscounts" THEN <<>>
             ELSE IF c.percent \notin 1..100 THEN before
             ELSE IF c.op = "applyCategoryDiscount"
             THEN <<CategoryPercentOff(c.category, c.percent)>>
             ELSE Append(before, CouponPercentOff(c.percent))

\* C25: ProductControllerDB.applyCategoryDiscount and applyCouponDiscount with
\* percent <= 0 or percent > 100 return success = false and leave every
\* product's final price as it was; with an accepted percent P the new rule
\* discounts by the fraction P/100.
C25_PercentValidation ==
    controller = "ProductControllerDB" =>
        /\ \A i \in 1..Len(log) :
              log[i].op \in {"applyCategoryDiscount", "applyCouponDiscount"} =>
                 (log[i].success <=> log[i].percent \in 1..100)
        /\ \A P \in ControllerProducts :
              total(priceCalculator, P) = total(acceptedOnly(log), P)
        /\ (/\ info.called
            /\ log # <<>>
            /\ Last(log).op = "applyCouponDiscount"
            /\ Last(log).success) =>
               LET inner == total(acceptedOnly(Front(log)), info.product)
               IN  info.finalPrice =
                       Rat(inner.n * (100 - Last(log).percent), inner.d * 100)

C25_Witness ==
    /\ controller = "ProductControllerDB"
    /\ info.called
    /\ info.product = pF
    /\ Len(log) = 3
    /\ log[1] = Call("applyCouponDiscount", <<>>, 10, TRUE)
    /\ log[2] = Call("applyCouponDiscount", <<>>, 150, FALSE)
    /\ log[3] = Call("applyCategoryDiscount", electronics, 0, FALSE)
    /\ info.finalPrice = RatOfInt(180)

\* s is L with some of its products left out
RECURSIVE isSubsequence(_, _)
isSubsequence(s, l) ==
    IF s = <<>> THEN TRUE
    ELSE IF l = <<>> THEN FALSE
    ELSE IF s[1] = l[1] THEN isSubsequence(Tail(s), Tail(l))
    ELSE isSubsequence(s, Tail(l))

\* C29: for every filter chain and every list L, filter(L) is a subsequence of
\* L: products of L, in the same order, none duplicated.
C29_FilterSubsequence ==
    out.called =>
        /\ ~out.err
        /\ isSubsequence(out.val, L)

\* the list applyProductFilters pages: the catalog after the filters asked for
filteredList ==
    SelectSeq(allProducts, LAMBDA p :
        /\ filterParams.category = books => toLowerCase(p.category) = books
        /\ filterParams.inStockOnly => positiveStock(p.stock_quantity))

\* C30: whenever a limit is specified (limit = 0 included) the data is exactly
\* the elements of the filtered list at positions offset .. offset+limit-1
\* (offset defaulting to 0), the pagination object is present with hasNext
\* true exactly when offset+limit is below the filtered count, and total and
\* filtered are the size of the whole filtered list; with no limit the data
\* is the whole filtered list and pagination is null.
C30_Pagination ==
    (response.called /\ response.success) =>
        LET limit == filterParams.limit
            offset == IF IsNum(filterParams.offset) THEN filterParams.offset[1] ELSE 0
            count == Len(filteredList)
        IN  /\ response.total = count
            /\ response.filtered = count
            /\ IF IsNum(limit)
               THEN /\ Len(response.data) <= limit[1]
                    /\ \A k \in 1..Len(response.data) :
                          response.data[k] = filteredList[offset + k]
                    /\ Len(response.data) =
                          IF offset + limit[1] <= count THEN limit[1]
                          ELSE IF offset <= count THEN count - offset ELSE 0
                    /\ response.pagination # NoPagination
                    /\ response.pagination[1].hasNext <=> (offset + limit[1] < count)
               ELSE /\ response.data = filteredList
                    /\ response.pagination = NoPagination

\* C23: after any sequence of addUser, updateUser and removeUser every stored
\* user has an email of valid format and no two stored users have the same
\* email; a call that would break this raises an error and leaves the list
\* unchanged.
C23_UserEmails ==
    /\ \A i \in 1..Len(users) : isEmailValid(users[i].email)
    /\ \A i, j \in 1..Len(users) : i # j => users[i].email # users[j].email
    /\ userResult = "error" => users = userCall.before

\* name non-empty, category one of eletronicos / livros / alimentos, price > 0
wellFormed(P) ==
    /\ Len(P.name) > 0
    /\ \/ P.category = <<"e","l","e","t","r","o","n","i","c","o","s">>
       \/ P.category = <<"l","i","v","r","o","s">>
       \/ P.category = <<"a","l","i","m","e","n","t","o","s">>
    /\ P.price >= 1

\* C21: every product stored has price > 0 and, in the table, a category of
\* the known set: Product.isValid() holds exactly when the name is non-empty,
\* the category is eletronicos, livros or alimentos and price > 0;
\* ProductRepository.create and update refuse a product that is not valid
\* without writing; in memory ProductController.addProduct rejects
\* price <= 0 and ProductService.updateProduct never sets one.
C21_ValidProducts ==
    /\ \A i \in 1..Len(table) : wellFormed(table[i])
    /\ dbCall.op \in {"create", "update"} =>
          /\ dbCall.valid <=> wellFormed(dbCall.product)
          /\ ~wellFormed(dbCall.product) =>
                /\ ~dbResult.success
                /\ table = dbCall.before
    /\ \A i \in 1..Len(catalog) : catalog[i].price >= 1
    /\ (lastCall.op = "controllerAddProduct" /\ result = "added") =>
          /\ Len(catalog) = Len(lastCall.before) + 1
          /\ Last(catalog).name = trim(lastCall.name)

C21_Witness ==
    /\ dbCall.op = "update"
    /\ dbCall.product.name = <<"A">>
    /\ dbCall.product.category = livros
    /\ dbCall.product.price = 0
    /\ Len(table) = 2
    /\ \E i \in 1..2 : table[i].id = 1 /\ table[i].is_active
    /\ ~dbResult.success

\* C28: a product name freed by removal can be used again: after a successful
\* removal by name the product is no longer returned by lookup, and adding a
\* new valid product with the same name succeeds, in the in-memory
\* ProductService and in the database (deleteByName, then create).
C28_NameReusable ==
    /\ (/\ lastCall.op = "addProduct"
        /\ \A i \in 1..Len(lastCall.before) :
              ~sameName(lastCall.before[i].name, lastCall.name)) =>
           /\ result = "void"
           /\ Len(catalog) = Len(lastCall.before) + 1
    /\ (/\ lastCall.op = "removeProduct"
        /\ result = "true") =>
           \A i \in 1..Len(catalog) : ~sameName(catalog[i].name, lastCall.name)
    /\ (/\ dbCall.op = "deleteByName"
        /\ dbResult.affectedRows > 0) =>
           findByName(table, dbCall.product.name) = <<>>
    /\ (/\ dbCall.op = "create"
        /\ dbCall.valid
        /\ findByName(dbCall.before, dbCall.product.name) = <<>>) =>
           /\ dbResult.success
           /\ findByName(table, dbCall.product.name) # <<>>

\* the percentage of the active discount of a category, of the coupon; 0 for none
categoryPoints(category) ==
    IF \E i \in 1..Len(activeDiscounts) :
          activeDiscounts[i].type = "Categoria" /\ activeDiscounts[i].category = category
    THEN (CHOOSE d \in {activeDiscounts[i] : i \in 1..Len(activeDiscounts)} :
             d.type = "Categoria" /\ d.category = category).percentage
    ELSE 0

couponPoints ==
    IF \E i \in 1..Len(activeDiscounts) : activeDiscounts[i].type = "Cupom"
    THEN (CHOOSE d \in {activeDiscounts[i] : i \in 1..Len(activeDiscounts)} :
             d.type = "Cupom").percentage
    ELSE 0

\* what the decorator chain gives for the same two discounts
chainValue(P, c, k) ==
    total(<<CategoryPercentOff(P.category, c), CouponPercentOff(k)>>, P)

\* the browser's price is price*(1 - min(c+k, 100)/100), is never above the
\* chain's and never negative
additiveBelowChain(P, c, k) ==
    LET cap == IF c + k < 100 THEN c + k ELSE 100
    IN  /\ appCall.finalPrice.n * 100 = P.price * (100 - cap) * appCall.finalPrice.d
        /\ ~RatLess(chainValue(P, c, k), appCall.finalPrice)
        /\ P.price >= 0 => appCall.finalPrice.n >= 0

\* C22 as stated: ProductApp.calculateFinalPrice returns
\* price*(1 - min(c+k, 100)/100), which differs from the chain's
\* price*(1-c/100)*(1-k/100) whenever both c and k are non-zero, is never
\* greater than the chain's value and never negative for a non-negative price.
C22_AdditiveDiffersAlways ==
    appCall.op = "calculateFinalPrice" =>
        LET P == appCall.product
            c == categoryPoints(P.category)
            k == couponPoints
        IN  /\ additiveBelowChain(P, c, k)
            /\ (c # 0 /\ k # 0) => appCall.finalPrice # chainValue(P, c, k)

\* C22 amended: the same, the two values differing whenever both c and k are
\* non-zero and neither is 100 (with c or k at 100 both values are 0).
C22_AdditiveDiffersBelow100 ==
    appCall.op = "calculateFinalPrice" =>
        LET P == appCall.product
            c == categoryPoints(P.category)
            k == couponPoints
        IN  /\ additiveBelowChain(P, c, k)
            /\ (c # 0 /\ k # 0 /\ c # 100 /\ k # 100) =>
                   appCall.finalPrice # chainValue(P, c, k)
            /\ (c = 100 \/ k = 100) =>
                   /\ appCall.finalPrice = RatOfInt(0)
                   /\ chainValue(P, c, k) = RatOfInt(0)

C22_Witness ==
    /\ appCall.op = "calculateFinalPrice"
    /\ appCall.product = pI
    /\ categoryPoints(eletronicos) = 10
    /\ couponPoints = 10
    /\ appCall.finalPrice = RatOfInt(240)
    /\ chainValue(pI, 10, 10) = RatOfInt(243)

\* C26: activeDiscounts holds at most one discount of type Cupom and at most
\* one of type Categoria per category, each with a percentage in (0, 100]; an
\* apply call with a missing category or a percentage that is not a number,
\* <= 0 or > 100 leaves activeDiscounts unchanged.
C26_ActiveDiscounts ==
    /\ \A i \in 1..Len(activeDiscounts) : activeDiscounts[i].percentage \in 1..100
    /\ \A i, j \in 1..Len(activeDiscounts) :
          (i # j /\ activeDiscounts[i].type = activeDiscounts[j].type) =>
              /\ activeDiscounts[i].type = "Categoria"
              /\ activeDiscounts[i].category # activeDiscounts[j].category
    /\ (/\ appCall.op \in {"applyCategoryDiscount", "applyCouponDiscount"}
        /\ \/ appCall.op = "applyCategoryDiscount" /\ appCall.categoria = <<>>
           \/ appCall.percentual = NoNum
           \/ appCall.percentual[1] < 1
           \/ appCall.percentual[1] > 100) =>
           activeDiscounts = appCall.before

C26_Witness ==
    /\ appCall.op = "applyCouponDiscount"
    /\ appCall.percentual = Num(100)
    /\ Len(appCall.before) = 3
    /\ Len(activeDiscounts) = 3
    /\ activeDiscounts[3].type = "Cupom"
    /\ activeDiscounts[3].percentage = 100
    /\ appCall.before[1].type = "Cupom"

\* C27: when several applyFilters calls are in flight and their responses
\* arrive in any order, once all responses have been processed this.products
\* is the result of the most recently issued filter parameters.
C27_LatestRequestWins ==
    (pending = {} /\ issued # <<>>) =>
        appProducts = responseProducts(Last(issued))

====
